---- MODULE Spec2Model ----
(***************************************************************************)
(* The task store of src/server.py: the module-level mapping `tasks`, the  *)
(* counter `task_counter`, the five tools, the two resources and the       *)
(* prompt.  Calls are serialized: each action is one whole call.           *)
(***************************************************************************)
EXTENDS Integers, Sequences, FiniteSets, TLC

\* Bounds of the model: create_task calls, and readings of datetime.now().
MaxCreates == 3
MaxClock == 3
\* Bound of the threaded model: the threads calling create_task.
RaceThreads == 2

\* Python's None.  isoformat() never produces this text.
None == "None"
\* Marks a parameter the caller left out, so that its default applies.
Omitted == "<omitted>"

\* Inputs the host may pass.
Titles == {"Write spec"}
Descriptions == {"draft v1"}
PriorityArgs == {"high", "urgent", Omitted}
StatusArgs == {"pending", "in_progress", "completed", "done"}
StatusFilters == {"all", "completed", Omitted}
PriorityFilters == {"urgent", Omitted}

VARIABLES
    tasks,          \* the dict `tasks`, in insertion order: <<[key, val], ...>>
    task_counter,   \* the global `task_counter`
    clock,          \* the last instant datetime.now() returned
    call,           \* the call the host made last, with its arguments
    result,         \* what that call returned
    created,        \* history: the ids returned by create_task, in call order
    deleted,        \* history: the ids removed by a successful delete_task
    completions,    \* history: per id, the instants of its successful updates
                    \* to "completed", in call order
    threads,        \* the create_task calls in progress when the host runs
                    \* them on several threads: per thread, where it is in the
                    \* function and its local variables
    serialized      \* whether the host runs one call at a time

vars == <<tasks, task_counter, clock, call, result, created, deleted, completions,
          threads, serialized>>
\* What belongs to the threaded host; calls made one at a time leave it alone.
host == <<threads, serialized>>
store == <<tasks, task_counter, clock, created, deleted, completions>>

----------------------------------------------------------------------------
\* Python's dict, which keeps insertion order.

Keys(d) == {d[i].key : i \in DOMAIN d}

\* k in d
Contains(d, k) == k \in Keys(d)

IndexOf(d, k) == CHOOSE i \in DOMAIN d : d[i].key = k

\* d[k]
GetItem(d, k) == d[IndexOf(d, k)].val

\* d[k] = v: a present key keeps its position, a new key goes last.
SetItem(d, k, v) ==
    IF Contains(d, k)
    THEN [d EXCEPT ![IndexOf(d, k)] = [key |-> k, val |-> v]]
    ELSE Append(d, [key |-> k, val |-> v])

\* d.popitem() in place of d.pop(k): the entry inserted last goes.
Pop_Last(d, k) == SubSeq(d, 1, Len(d) - 1)

\* d.get(k) in place of d.pop(k): the entry stays.
Pop_Keep(d, k) == d

\* d.pop(k), the dict that is left
Pop(d, k) ==
    LET i == IndexOf(d, k)
    IN  SubSeq(d, 1, i - 1) \o SubSeq(d, i + 1, Len(d))

\* list(d.values())
Values(d) == [i \in DOMAIN d |-> d[i].val]

\* A parameter with a default value.
Default(arg, dflt) == IF arg = Omitted THEN dflt ELSE arg

\* The fallback taken whatever x is.
Or_Always(x, y) == y

\* x or y, on strings and None
Or(x, y) == IF x = None \/ x = "" THEN y ELSE x

\* datetime.now() is modelled as a logical clock that every reading advances;
\* datetime.isoformat() renders the instant as sortable text.
isoformat(t) == "2026-11-06T00:00:0" \o ToString(t)

\* f"task_{task_counter}"
TaskId(n) == "task_" \o ToString(n)

\* ", ".join(valid_statuses)
RECURSIVE join(_, _)
join(sep, seq) ==
    IF seq = <<>> THEN ""
    ELSE IF Len(seq) = 1 THEN seq[1]
    ELSE seq[1] \o sep \o join(sep, Tail(seq))

\* A fourth status let through.
valid_statuses_WithDone == <<"pending", "in_progress", "completed", "done">>

valid_statuses == <<"pending", "in_progress", "completed">>

InSeq(x, seq) == \E i \in DOMAIN seq : seq[i] = x

----------------------------------------------------------------------------
\* create_task

\* completed_at filled in at creation, like created_at.
NewTask_StampedCompleted(task_id, title, description, priority, now) ==
    [id |-> task_id,
     title |-> title,
     description |-> description,
     priority |-> priority,
     status |-> "pending",
     created_at |-> isoformat(now),
     completed_at |-> isoformat(now)]

\* A priority outside low/medium/high replaced by the default.
NewTask_ValidatedPriority(task_id, title, description, priority, now) ==
    [id |-> task_id,
     title |-> title,
     description |-> description,
     priority |-> IF priority \in {"low", "medium", "high"} THEN priority ELSE "medium",
     status |-> "pending",
     created_at |-> isoformat(now),
     completed_at |-> None]

NewTask(task_id, title, description, priority, now) ==
    [id |-> task_id,
     title |-> title,
     description |-> description,
     priority |-> priority,
     status |-> "pending",
     created_at |-> isoformat(now),
     completed_at |-> None]

\* The id taken from the current size of the mapping instead of the counter.
create_task_SizeId(title, description, priority_arg) ==
    /\ Len(created) < MaxCreates
    /\ clock < MaxClock
    /\ LET priority == Default(priority_arg, "medium")
           counter == Len(tasks) + 1
           task_id == TaskId(counter)
           now == clock + 1
           task == NewTask(task_id, title, description, priority, now)
       IN  /\ task_counter' = counter
           /\ clock' = now
           /\ tasks' = SetItem(tasks, task_id, task)
           /\ result' = [success |-> TRUE,
                         message |-> "Task created successfully",
                         task |-> task]
           /\ created' = Append(created, task_id)
    /\ UNCHANGED host
    /\ call' = [op |-> "create_task", title |-> title,
                description |-> description, priority |-> priority_arg]
    /\ UNCHANGED <<deleted, completions>>

create_task(title, description, priority_arg) ==
    /\ task_counter < MaxCreates
    /\ clock < MaxClock
    /\ LET priority == Default(priority_arg, "medium")
           counter == task_counter + 1
           task_id == TaskId(counter)
           now == clock + 1
           task == NewTask(task_id, title, description, priority, now)
       IN  /\ task_counter' = counter
           /\ clock' = now
           /\ tasks' = SetItem(tasks, task_id, task)
           /\ result' = [success |-> TRUE,
                         message |-> "Task created successfully",
                         task |-> task]
           /\ created' = Append(created, task_id)
    /\ UNCHANGED host
    /\ call' = [op |-> "create_task", title |-> title,
                description |-> description, priority |-> priority_arg]
    /\ UNCHANGED <<deleted, completions>>

----------------------------------------------------------------------------
\* update_task_status

\* The two checks in the wrong order: the status is validated first.
update_check_StatusFirst(task_id, status) ==
    IF ~InSeq(status, valid_statuses) THEN "invalid_status"
    ELSE IF ~Contains(tasks, task_id) THEN "not_found"
    ELSE "ok"

\* The status check left out.
update_check_NoValidation(task_id, status) ==
    IF ~Contains(tasks, task_id) THEN "not_found" ELSE "ok"

\* A completed task may not be reopened.
update_check_NoReopen(task_id, status) ==
    IF ~Contains(tasks, task_id) THEN "not_found"
    ELSE IF ~InSeq(status, valid_statuses) THEN "invalid_status"
    ELSE IF GetItem(tasks, task_id).status = "completed" /\ status # "completed"
    THEN "invalid_status"
    ELSE "ok"

\* The two early returns: which way the call goes.
update_check(task_id, status) ==
    IF ~Contains(tasks, task_id) THEN "not_found"
    ELSE IF ~InSeq(status, valid_statuses) THEN "invalid_status"
    ELSE "ok"

\* completed_at written only while it is still None.
UpdatedTask_KeepFirst(task, status, now) ==
    IF status = "completed" /\ task.completed_at = None
    THEN [task EXCEPT !.status = status, !.completed_at = isoformat(now)]
    ELSE [task EXCEPT !.status = status]

\* completed_at reset when the task leaves "completed".
UpdatedTask_ClearOnReopen(task, status, now) ==
    IF status = "completed"
    THEN [task EXCEPT !.status = status, !.completed_at = isoformat(now)]
    ELSE [task EXCEPT !.status = status, !.completed_at = None]

\* The record after the two assignments; `now` is read only for "completed".
UpdatedTask(task, status, now) ==
    IF status = "completed"
    THEN [task EXCEPT !.status = status, !.completed_at = isoformat(now)]
    ELSE [task EXCEPT !.status = status]

update_task_status(task_id, status) ==
    /\ UNCHANGED host
    /\ call' = [op |-> "update_task_status", task_id |-> task_id, status |-> status]
    /\ LET check == update_check(task_id, status)
       IN  IF check = "not_found"
           THEN /\ result' = [success |-> FALSE,
                              error |-> "Task " \o task_id \o " not found"]
                /\ UNCHANGED store
           ELSE IF check = "invalid_status"
           THEN /\ result' = [success |-> FALSE,
                              error |-> "Invalid status. Must be one of: "
                                        \o join(", ", valid_statuses)]
                /\ UNCHANGED store
           ELSE /\ status = "completed" => clock < MaxClock
                /\ LET now == clock + 1
                       task == UpdatedTask(GetItem(tasks, task_id), status, now)
                   IN  /\ clock' = IF status = "completed" THEN now ELSE clock
                       /\ tasks' = SetItem(tasks, task_id, task)
                       /\ result' = [success |-> TRUE,
                                     message |-> "Task " \o task_id
                                                 \o " status updated to " \o status,
                                     task |-> task]
                /\ completions' =
                       IF status = "completed"
                       THEN [id \in DOMAIN completions \cup {task_id} |->
                               IF id = task_id
                               THEN (IF id \in DOMAIN completions
                                     THEN completions[id] ELSE <<>>) \o <<clock + 1>>
                               ELSE completions[id]]
                       ELSE completions
                /\ UNCHANGED <<task_counter, created, deleted>>

----------------------------------------------------------------------------
\* delete_task

\* The counter taken back on a successful delete.
delete_task_Decrement(task_id) ==
    /\ UNCHANGED host
    /\ call' = [op |-> "delete_task", task_id |-> task_id]
    /\ IF ~Contains(tasks, task_id)
       THEN /\ result' = [success |-> FALSE,
                          error |-> "Task " \o task_id \o " not found"]
            /\ UNCHANGED store
       ELSE /\ LET deleted_task == GetItem(tasks, task_id)
               IN  /\ tasks' = Pop(tasks, task_id)
                   /\ result' = [success |-> TRUE,
                                 message |-> "Task " \o task_id
                                             \o " deleted successfully",
                                 deleted_task |-> deleted_task]
            /\ deleted' = deleted \cup {task_id}
            /\ task_counter' = task_counter - 1
            /\ UNCHANGED <<clock, created, completions>>

delete_task(task_id) ==
    /\ UNCHANGED host
    /\ call' = [op |-> "delete_task", task_id |-> task_id]
    /\ IF ~Contains(tasks, task_id)
       THEN /\ result' = [success |-> FALSE,
                          error |-> "Task " \o task_id \o " not found"]
            /\ UNCHANGED store
       ELSE /\ LET deleted_task == GetItem(tasks, task_id)
               IN  /\ tasks' = Pop(tasks, task_id)
                   /\ result' = [success |-> TRUE,
                                 message |-> "Task " \o task_id
                                             \o " deleted successfully",
                                 deleted_task |-> deleted_task]
            /\ deleted' = deleted \cup {task_id}
            /\ UNCHANGED <<task_counter, clock, created, completions>>

----------------------------------------------------------------------------
\* list_tasks

\* A task is kept when it passes either filter instead of both.
RECURSIVE list_loop_Or(_, _, _, _)
list_loop_Or(rest, filtered_tasks, status, priority) ==
    IF rest = <<>> THEN filtered_tasks
    ELSE LET task == Head(rest)
         IN  IF (status # "all" /\ task.status # status)
                /\ (priority # "all" /\ task.priority # priority)
             THEN list_loop_Or(Tail(rest), filtered_tasks, status, priority)
             ELSE list_loop_Or(Tail(rest), Append(filtered_tasks, task), status, priority)

\* The loop over tasks.values(): `rest` is what is still to visit.
RECURSIVE list_loop(_, _, _, _)
list_loop(rest, filtered_tasks, status, priority) ==
    IF rest = <<>> THEN filtered_tasks
    ELSE LET task == Head(rest)
         IN  IF status # "all" /\ task.status # status
             THEN list_loop(Tail(rest), filtered_tasks, status, priority)
             ELSE IF priority # "all" /\ task.priority # priority
             THEN list_loop(Tail(rest), filtered_tasks, status, priority)
             ELSE list_loop(Tail(rest), Append(filtered_tasks, task), status, priority)

\* What list_tasks returns.
list_tasks(status_arg, priority_arg) ==
    LET status == Default(status_arg, "all")
        priority == Default(priority_arg, "all")
        filtered_tasks == list_loop(Values(tasks), <<>>, status, priority)
    IN  [total |-> Len(filtered_tasks),
         tasks |-> filtered_tasks,
         filters |-> [status |-> status, priority |-> priority]]

ListTasksCall(status_arg, priority_arg) ==
    /\ UNCHANGED host
    /\ call' = [op |-> "list_tasks", status |-> status_arg, priority |-> priority_arg]
    /\ result' = list_tasks(status_arg, priority_arg)
    /\ UNCHANGED store

----------------------------------------------------------------------------
\* get_task_stats

\* d.get(k, dflt), on a dict without order
DictGet(d, k, dflt) == IF k \in DOMAIN d THEN d[k] ELSE dflt

\* d[k] = v, on a dict without order
DictSet(d, k, v) == [x \in DOMAIN d \cup {k} |-> IF x = k THEN v ELSE d[x]]

\* Priorities outside the initial keys are skipped instead of added.
RECURSIVE stats_loop_KnownPriorities(_, _, _)
stats_loop_KnownPriorities(rest, by_status, by_priority) ==
    IF rest = <<>> THEN [by_status |-> by_status, by_priority |-> by_priority]
    ELSE LET task == Head(rest)
         IN  stats_loop_KnownPriorities(Tail(rest),
                        DictSet(by_status, task.status,
                                DictGet(by_status, task.status, 0) + 1),
                        IF task.priority \in DOMAIN by_priority
                        THEN DictSet(by_priority, task.priority,
                                     by_priority[task.priority] + 1)
                        ELSE by_priority)

\* The loop over tasks.values(), carrying both breakdowns.
RECURSIVE stats_loop(_, _, _)
stats_loop(rest, by_status, by_priority) ==
    IF rest = <<>> THEN [by_status |-> by_status, by_priority |-> by_priority]
    ELSE LET task == Head(rest)
         IN  stats_loop(Tail(rest),
                        DictSet(by_status, task.status,
                                DictGet(by_status, task.status, 0) + 1),
                        DictSet(by_priority, task.priority,
                                DictGet(by_priority, task.priority, 0) + 1))

\* The total taken from the counter of tasks ever created.
get_task_stats_CounterTotal ==
    LET counts == stats_loop(Values(tasks),
                             [k \in {"pending", "in_progress", "completed"} |-> 0],
                             [k \in {"low", "medium", "high"} |-> 0])
    IN  [total_tasks |-> task_counter,
         by_status |-> counts.by_status,
         by_priority |-> counts.by_priority]

\* What get_task_stats returns.
get_task_stats ==
    LET total == Len(tasks)
        counts == stats_loop(Values(tasks),
                             [k \in {"pending", "in_progress", "completed"} |-> 0],
                             [k \in {"low", "medium", "high"} |-> 0])
    IN  [total_tasks |-> total,
         by_status |-> counts.by_status,
         by_priority |-> counts.by_priority]

GetTaskStatsCall ==
    /\ UNCHANGED host
    /\ call' = [op |-> "get_task_stats"]
    /\ result' = get_task_stats
    /\ UNCHANGED store

----------------------------------------------------------------------------
\* The resources tasks://all and tasks://stats

\* The count taken from the counter of tasks ever created.
get_all_tasks_resource_CounterCount == [tasks |-> Values(tasks), count |-> task_counter]

get_all_tasks_resource == [tasks |-> Values(tasks), count |-> Len(tasks)]

get_stats_resource == get_task_stats

ReadResource(uri) ==
    /\ UNCHANGED host
    /\ call' = [op |-> "resource", uri |-> uri]
    /\ result' = IF uri = "tasks://all" THEN get_all_tasks_resource
                 ELSE get_stats_resource
    /\ UNCHANGED store

----------------------------------------------------------------------------
\* task_summary_prompt

task_summary_prompt(task_id) ==
    IF ~Contains(tasks, task_id)
    THEN "Task " \o task_id \o " not found"
    ELSE LET task == GetItem(tasks, task_id)
         IN  "Task Summary:\nTitle: " \o task.title
             \o "\nDescription: " \o task.description
             \o "\nPriority: " \o task.priority
             \o "\nStatus: " \o task.status
             \o "\nCreated: " \o task.created_at
             \o "\nCompleted: " \o Or(task.completed_at, "Not completed")
             \o "\n\nPlease analyze this task and provide recommendations for completion."

\* The task taken out of the mapping with pop instead of read.
PromptCall_Pop(task_id) ==
    /\ UNCHANGED host
    /\ call' = [op |-> "task_summary_prompt", task_id |-> task_id]
    /\ result' = [text |-> task_summary_prompt(task_id)]
    /\ tasks' = IF Contains(tasks, task_id) THEN Pop(tasks, task_id) ELSE tasks
    /\ UNCHANGED <<task_counter, clock, created, deleted, completions>>

PromptCall(task_id) ==
    /\ UNCHANGED host
    /\ call' = [op |-> "task_summary_prompt", task_id |-> task_id]
    /\ result' = [text |-> task_summary_prompt(task_id)]
    /\ UNCHANGED store

----------------------------------------------------------------------------

Init ==
    /\ tasks = <<>>
    /\ task_counter = 0
    /\ clock = 0
    /\ call = [op |-> "start"]
    /\ result = [op |-> "start"]
    /\ created = <<>>
    /\ deleted = {}
    /\ completions = <<>>
    /\ threads = <<>>
    /\ serialized = TRUE

\* The ids a caller may name: every id the store can hand out, and one it cannot.
TaskIdArgs == {TaskId(n) : n \in 1..MaxCreates} \cup {"task_99"}

Next ==
    \/ \E t \in Titles, d \in Descriptions, p \in PriorityArgs : create_task(t, d, p)
    \/ \E id \in TaskIdArgs, s \in StatusArgs : update_task_status(id, s)
    \/ \E id \in TaskIdArgs : delete_task(id)
    \/ \E s \in StatusFilters, p \in PriorityFilters : ListTasksCall(s, p)
    \/ GetTaskStatsCall
    \/ \E uri \in {"tasks://all", "tasks://stats"} : ReadResource(uri)
    \/ \E id \in TaskIdArgs : PromptCall(id)

Spec == Init /\ [][Next]_vars

----------------------------------------------------------------------------
\* create_task called from several threads, one part of a statement at a
\* time.  `task_counter += 1` is a read of the global followed by a write of
\* it, and the f-string reads the global again.

Threads == 1..RaceThreads

Running(t) == threads[t].pc \notin {"idle", "done"}

\* The host starts a call; a serializing host waits for the call in progress.
RaceCall(t, title, description, priority_arg) ==
    /\ threads[t].pc = "idle"
    /\ serialized => \A u \in Threads : ~Running(u)
    /\ threads' = [threads EXCEPT ![t] =
                      [@ EXCEPT !.pc = "load_counter",
                                !.title = title,
                                !.description = description,
                                !.priority = Default(priority_arg, "medium")]]
    /\ UNCHANGED <<tasks, task_counter, clock, call, result, created, deleted,
                   completions, serialized>>

\* task_counter += 1, the read
RaceLoadCounter(t) ==
    /\ threads[t].pc = "load_counter"
    /\ threads' = [threads EXCEPT ![t] =
                      [@ EXCEPT !.pc = "store_counter", !.loaded = task_counter]]
    /\ UNCHANGED <<tasks, task_counter, clock, call, result, created, deleted,
                   completions, serialized>>

\* The sum computed and dropped: the global keeps its value.
RaceStoreCounter_NoWrite(t) ==
    /\ threads[t].pc = "store_counter"
    /\ threads' = [threads EXCEPT ![t] = [@ EXCEPT !.pc = "format_id"]]
    /\ UNCHANGED <<tasks, task_counter, clock, call, result, created, deleted,
                   completions, serialized>>

\* task_counter += 1, the write
RaceStoreCounter(t) ==
    /\ threads[t].pc = "store_counter"
    /\ task_counter' = threads[t].loaded + 1
    /\ threads' = [threads EXCEPT ![t] = [@ EXCEPT !.pc = "format_id"]]
    /\ UNCHANGED <<tasks, clock, call, result, created, deleted,
                   completions, serialized>>

\* task_id = f"task_{task_counter}"
RaceFormatId(t) ==
    /\ threads[t].pc = "format_id"
    /\ threads' = [threads EXCEPT ![t] =
                      [@ EXCEPT !.pc = "build_task", !.task_id = TaskId(task_counter)]]
    /\ UNCHANGED <<tasks, task_counter, clock, call, result, created, deleted,
                   completions, serialized>>

\* task = {...}, which reads datetime.now()
RaceBuildTask(t) ==
    /\ threads[t].pc = "build_task"
    /\ clock' = clock + 1
    /\ threads' = [threads EXCEPT ![t] = [@ EXCEPT !.pc = "insert", !.now = clock + 1]]
    /\ UNCHANGED <<tasks, task_counter, call, result, created, deleted,
                   completions, serialized>>

\* tasks[task_id] = task, and the return
RaceInsert(t) ==
    /\ threads[t].pc = "insert"
    /\ LET me == threads[t]
           task == NewTask(me.task_id, me.title, me.description, me.priority, me.now)
       IN  /\ tasks' = SetItem(tasks, me.task_id, task)
           /\ result' = [success |-> TRUE,
                         message |-> "Task created successfully",
                         task |-> task]
           /\ call' = [op |-> "create_task", title |-> me.title,
                       description |-> me.description, priority |-> me.priority]
           /\ created' = Append(created, me.task_id)
    /\ threads' = [threads EXCEPT ![t] = [@ EXCEPT !.pc = "done"]]
    /\ UNCHANGED <<task_counter, clock, deleted, completions, serialized>>

InitRace ==
    /\ tasks = <<>>
    /\ task_counter = 0
    /\ clock = 0
    /\ call = [op |-> "start"]
    /\ result = [op |-> "start"]
    /\ created = <<>>
    /\ deleted = {}
    /\ completions = <<>>
    /\ threads = [t \in Threads |->
                    [pc |-> "idle", title |-> None, description |-> None,
                     priority |-> None, loaded |-> 0, task_id |-> None, now |-> 0]]
    /\ serialized \in BOOLEAN

NextRace ==
    \/ \E t \in Threads, ti \in Titles, d \in Descriptions, p \in PriorityArgs :
          RaceCall(t, ti, d, p)
    \/ \E t \in Threads : RaceLoadCounter(t)
    \/ \E t \in Threads : RaceStoreCounter(t)
    \/ \E t \in Threads : RaceFormatId(t)
    \/ \E t \in Threads : RaceBuildTask(t)
    \/ \E t \in Threads : RaceInsert(t)

SpecRace == InitRace /\ [][NextRace]_vars
----------------------------------------------------------------------------
\* What the properties below are stated with.  These restate the contract in
\* their own terms and do not go through the operators of the model above.

\* The id the store is to hand out for the k-th create: task_k.
IdOf(k) == "task_" \o ToString(k)

\* The numbers an id stands for.
NumsOf(id) == {n \in 0..(MaxCreates + 1) : IdOf(n) = id}

StatusEnum == {"pending", "in_progress", "completed"}
AnyStatusFilter == {"all", "pending", "in_progress", "completed", "done", Omitted}
AnyPriorityFilter == {"all", "low", "medium", "high", "urgent", Omitted}

\* The live records, as a set, and the live record of an id.
Live == {tasks[i].val : i \in DOMAIN tasks}
LiveIds == {tasks[i].key : i \in DOMAIN tasks}
RecordsIn(d, id) == {d[i].val : i \in {j \in DOMAIN d : d[j].key = id}}
RecordsOf(id) == RecordsIn(tasks, id)

IsCall(c, op) == c.op = op

\* C1: the k-th create_task returns task_k, whatever updates and deletes came
\* between: the id handed out differs from every id handed out before, its
\* number is larger than theirs, and it is no id that was deleted.
C1_CreateStep ==
    IsCall(call', "create_task") =>
        LET id == result'.task.id
            k == Len(created) + 1
        IN  /\ created' = Append(created, id)
            /\ id = IdOf(k)
            /\ \A i \in DOMAIN created : created[i] # id
            /\ \A i \in DOMAIN created : \A m \in NumsOf(created[i]), n \in NumsOf(id) : m < n
            /\ NumsOf(id) # {}
            /\ id \notin deleted

C1_SequentialIds == [][C1_CreateStep]_vars

C1_Witness ==
    /\ IsCall(call, "create_task")
    /\ result.task.id = "task_3"
    /\ "task_1" \in deleted
    /\ LiveIds = {"task_2", "task_3"}

\* C2: update_task_status and delete_task with an id that is no key of the
\* store return {success: false, error: "Task <id> not found"} and leave the
\* mapping and the counter as they were.
C2_MissingStep ==
    (/\ call'.op \in {"update_task_status", "delete_task"}
     /\ call'.task_id \notin LiveIds)
    => /\ result' = [success |-> FALSE,
                     error |-> "Task " \o call'.task_id \o " not found"]
       /\ tasks' = tasks
       /\ task_counter' = task_counter

C2_NotFoundNoChange == [][C2_MissingStep]_vars

C2_Witness ==
    /\ IsCall(call, "delete_task")
    /\ call.task_id = "task_99"
    /\ result = [success |-> FALSE, error |-> "Task task_99 not found"]
    /\ Len(tasks) = 2

\* C3: update_task_status on an existing id with a status outside the three
\* returns the InvalidStatus result and changes no task and not the counter.
C3_InvalidStep ==
    (/\ IsCall(call', "update_task_status")
     /\ call'.task_id \in LiveIds
     /\ call'.status \notin StatusEnum)
    => /\ result' = [success |-> FALSE,
                     error |-> "Invalid status. Must be one of: pending, in_progress, completed"]
       /\ tasks' = tasks
       /\ task_counter' = task_counter

C3_InvalidStatusNoChange == [][C3_InvalidStep]_vars

C3_Witness ==
    /\ IsCall(call, "update_task_status")
    /\ call.status = "done"
    /\ call.task_id \in LiveIds
    /\ ~result.success
    /\ \A t \in RecordsOf(call.task_id) : t.status = "completed" /\ t.completed_at # None

\* C4: a successful update to "completed" leaves completed_at non-absent; a
\* successful update to "pending" or "in_progress" leaves completed_at as it
\* was before the call.
C4_UpdateStep ==
    (/\ IsCall(call', "update_task_status")
     /\ result'.success)
    => LET id == call'.task_id
           before == {t.completed_at : t \in RecordsOf(id)}
           after == {t.completed_at : t \in RecordsIn(tasks', id)}
       IN  /\ Cardinality(before) = 1
           /\ Cardinality(after) = 1
           /\ call'.status = "completed" => None \notin after
           /\ call'.status \in {"pending", "in_progress"} => after = before

C4_CompletedAt == [][C4_UpdateStep]_vars

C4_Witness ==
    /\ IsCall(call, "update_task_status")
    /\ call.status = "in_progress"
    /\ result.success
    /\ result.task.completed_at # None
    /\ \A t \in RecordsOf(call.task_id) : t.status = "in_progress" /\ t.completed_at # None
\* C5: a successful delete_task returns the record as it was stored just
\* before the call, and from then on no list_tasks result, under any filters,
\* holds a task with a deleted id.
C5_NeverListed ==
    \A id \in deleted : \A s \in AnyStatusFilter, p \in AnyPriorityFilter :
        LET listed == list_tasks(s, p).tasks
        IN  \A i \in DOMAIN listed : listed[i].id # id

C5_DeleteStep ==
    (IsCall(call', "delete_task") /\ result'.success)
    => /\ RecordsOf(call'.task_id) = {result'.deleted_task}
       /\ call'.task_id \in deleted'
       /\ call'.task_id \notin {tasks'[i].key : i \in DOMAIN tasks'}

C5_DeletedStaysGone == []C5_NeverListed /\ [][C5_DeleteStep]_vars

C5_Witness ==
    /\ IsCall(call, "list_tasks")
    /\ deleted = {"task_1"}
    /\ result.total = 2

\* C6: list_tasks("all", "all") and tasks://all return exactly the tasks
\* created and not since deleted, each once, in creation order, and report
\* the number of live tasks.
C6_AllTasks ==
    LET r == list_tasks("all", "all")
        v == get_all_tasks_resource
        expected == {created[k] : k \in DOMAIN created} \ deleted
    IN  /\ v.tasks = r.tasks
        /\ {r.tasks[i].id : i \in DOMAIN r.tasks} = expected
        /\ Len(r.tasks) = Cardinality(expected)
        /\ \A i \in DOMAIN r.tasks : RecordsOf(r.tasks[i].id) = {r.tasks[i]}
        /\ \A i \in DOMAIN r.tasks : NumsOf(r.tasks[i].id) # {}
        /\ \A i, j \in DOMAIN r.tasks :
              i < j => \A m \in NumsOf(r.tasks[i].id), n \in NumsOf(r.tasks[j].id) : m < n
        /\ r.total = Len(tasks)
        /\ v.count = Len(tasks)
        /\ r.total = Cardinality(expected)

C6_Witness ==
    /\ IsCall(call, "resource")
    /\ call.uri = "tasks://all"
    /\ deleted = {"task_2"}
    /\ result.count = 2
    /\ result.tasks[1].id = "task_1"
    /\ result.tasks[2].id = "task_3"

\* C7: list_tasks(S, P) returns exactly the live tasks that match both
\* filters ("all" matching everything), with total the number returned; a
\* value no live task carries gives the empty list with total 0, no error.
C7_Filters ==
    \A s \in AnyStatusFilter, p \in AnyPriorityFilter :
        LET S == IF s = Omitted THEN "all" ELSE s
            P == IF p = Omitted THEN "all" ELSE p
            Match(t) == (S = "all" \/ t.status = S) /\ (P = "all" \/ t.priority = P)
            r == list_tasks(s, p)
        IN  /\ DOMAIN r = {"total", "tasks", "filters"}
            /\ r.tasks = SelectSeq([i \in DOMAIN tasks |-> tasks[i].val], Match)
            /\ r.total = Len(r.tasks)
            /\ (\A t \in Live : ~Match(t)) => (r.tasks = <<>> /\ r.total = 0)

C7_Witness ==
    /\ IsCall(call, "list_tasks")
    /\ call.status = "completed"
    /\ call.priority = "urgent"
    /\ Len(tasks) = 2
    /\ result.total = 1
    /\ list_tasks("done", "all").total = 0

\* C8: get_task_stats reports total_tasks equal to the sum of the by_status
\* values and to the number of tasks in the store.
RECURSIVE SumValues(_, _)
SumValues(f, keys) ==
    IF keys = {} THEN 0
    ELSE LET k == CHOOSE x \in keys : TRUE
         IN  f[k] + SumValues(f, keys \ {k})

C8_StatsTotal ==
    LET r == get_task_stats
    IN  /\ r.total_tasks = SumValues(r.by_status, DOMAIN r.by_status)
        /\ r.total_tasks = Cardinality(LiveIds)
        /\ r.total_tasks = Len(tasks)

C8_Witness ==
    /\ IsCall(call, "get_task_stats")
    /\ deleted # {}
    /\ result.total_tasks = 1
    /\ result.by_status["completed"] = 1

\* C9: create_task always returns success, and the record it stores is
\* pending with completed_at absent, the priority as given ("medium" when
\* left out), and the title and description as given.
C9_CreateStep ==
    IsCall(call', "create_task") =>
        /\ result'.success
        /\ LET t == result'.task
           IN  /\ RecordsIn(tasks', t.id) = {t}
               /\ t.status = "pending"
               /\ t.completed_at = None
               /\ t.priority = (IF call'.priority = Omitted THEN "medium"
                                ELSE call'.priority)
               /\ t.title = call'.title
               /\ t.description = call'.description

C9_CreateSucceeds == [][C9_CreateStep]_vars

C9_Witness ==
    /\ IsCall(call, "create_task")
    /\ call.priority = "urgent"
    /\ result.success
    /\ result.task.priority = "urgent"
    /\ \E t \in Live : t.priority = "medium"

\* C10: every task in the store has a status among pending, in_progress and
\* completed, after any sequence of valid and invalid calls.
C10_StatusEnum == \A t \in Live : t.status \in StatusEnum

C10_Witness ==
    /\ IsCall(call, "update_task_status")
    /\ call.status = "done"
    /\ call.task_id \in LiveIds
    /\ \E t1, t2 \in Live : t1.status = "in_progress" /\ t2.status = "completed"
\* The instants at which id was successfully updated to "completed".
CompletionsOf(id) == IF id \in DOMAIN completions THEN completions[id] ELSE <<>>

\* How an instant reads in a record.
Stamp(t) == "2026-11-06T00:00:0" \o ToString(t)

\* C11: a live task's completed_at is non-absent exactly when at least one
\* successful update_task_status(id, "completed") was applied to it.
C11_CompletedAtIffCompletedOnce ==
    \A i \in DOMAIN tasks :
        (tasks[i].val.completed_at # None) <=> (CompletionsOf(tasks[i].key) # <<>>)

C11_Witness ==
    /\ IsCall(call, "update_task_status")
    /\ call.status = "pending"
    /\ result.success
    /\ CompletionsOf(call.task_id) # <<>>
    /\ \E t \in Live : t.completed_at = None
    /\ \E t \in Live : t.completed_at # None /\ t.status = "pending"
\* C12, as stated: a live task's completed_at is absent or the instant of the
\* FIRST successful update of that task to "completed".
C12_FirstCompletion ==
    \A i \in DOMAIN tasks :
        LET done == CompletionsOf(tasks[i].key)
        IN  tasks[i].val.completed_at =
                (IF done = <<>> THEN None ELSE Stamp(done[1]))

\* C12, amended: a live task's completed_at is absent when the task was never
\* updated to "completed", and otherwise the instant of the LATEST successful
\* update of that task to "completed"; updates to other statuses do not
\* clear or change it.
C12_LatestCompletion ==
    \A i \in DOMAIN tasks :
        LET done == CompletionsOf(tasks[i].key)
        IN  tasks[i].val.completed_at =
                (IF done = <<>> THEN None ELSE Stamp(done[Len(done)]))

C12_Witness ==
    /\ IsCall(call, "update_task_status")
    /\ call.status = "in_progress"
    /\ result.success
    /\ Len(CompletionsOf(call.task_id)) = 2
    /\ result.task.completed_at = Stamp(CompletionsOf(call.task_id)[2])
    /\ result.task.completed_at # Stamp(CompletionsOf(call.task_id)[1])
\* C13: get_task_stats returns by_status with exactly the keys pending,
\* in_progress, completed, and by_priority with the keys low, medium, high
\* and every other priority a live task carries; each key maps to the number
\* of live tasks with that value, and the by_priority values sum to
\* total_tasks.
C13_StatsBreakdown ==
    LET r == get_task_stats
        Count(field, v) == Cardinality({i \in DOMAIN tasks : tasks[i].val[field] = v})
    IN  /\ DOMAIN r.by_status = {"pending", "in_progress", "completed"}
        /\ \A k \in DOMAIN r.by_status : r.by_status[k] = Count("status", k)
        /\ DOMAIN r.by_priority
              = {"low", "medium", "high"} \cup {t.priority : t \in Live}
        /\ \A k \in DOMAIN r.by_priority : r.by_priority[k] = Count("priority", k)
        /\ SumValues(r.by_priority, DOMAIN r.by_priority) = r.total_tasks

C13_Witness ==
    /\ IsCall(call, "get_task_stats")
    /\ result.total_tasks = 3
    /\ DOMAIN result.by_priority = {"low", "medium", "high", "urgent"}
    /\ result.by_priority["urgent"] = 2
    /\ result.by_priority["medium"] = 1
    /\ result.by_priority["low"] = 0
    /\ result.by_status["in_progress"] = 1
    /\ result.by_status["completed"] = 0

\* C14: for a live task in any status, update_task_status(id, s) with s among
\* pending, in_progress, completed succeeds and leaves the task with status
\* s, also when s is the status it already has.
C14_UpdateStep ==
    (/\ IsCall(call', "update_task_status")
     /\ call'.task_id \in LiveIds
     /\ call'.status \in StatusEnum)
    => /\ result'.success
       /\ result'.task.status = call'.status
       /\ {t.status : t \in RecordsIn(tasks', call'.task_id)} = {call'.status}

C14_AnyTransition == [][C14_UpdateStep]_vars

C14_Witness ==
    /\ IsCall(call, "update_task_status")
    /\ call.status = "pending"
    /\ result.success
    /\ result.task.status = "pending"
    /\ result.task.completed_at # None
    /\ CompletionsOf(call.task_id) # <<>>
\* C15: when the host serializes the calls, no create is lost: the ids built
\* by different calls differ, the counter has advanced once per call that
\* wrote it, and every returned call has its own entry in the mapping.  When
\* it does not, two calls can build the same id and one task overwrites the
\* other (the witness).
Past(t, pcs) == threads[t].pc \in pcs

C15_SerializedNoLostCreate ==
    serialized =>
        /\ \A t, u \in Threads :
              (t # u /\ Past(t, {"build_task", "insert", "done"})
                     /\ Past(u, {"build_task", "insert", "done"}))
              => threads[t].task_id # threads[u].task_id
        /\ task_counter = Cardinality({t \in Threads :
                              Past(t, {"format_id", "build_task", "insert", "done"})})
        /\ Len(tasks) = Cardinality({t \in Threads : Past(t, {"done"})})

C15_Witness ==
    /\ ~serialized
    /\ \A t \in Threads : threads[t].pc = "done"
    /\ threads[1].task_id = threads[2].task_id
    /\ task_counter < 2
    /\ Len(created) = 2
    /\ Len(tasks) = 1
\* C16: a successful update_task_status(id, s) changes at most the status and
\* completed_at of task id: its other fields, every other task, the keys and
\* the counter stay.  A successful delete_task(id) removes the entry id and
\* nothing else, and leaves the counter.
C16_FrameStep ==
    /\ (IsCall(call', "update_task_status") /\ result'.success)
       => /\ task_counter' = task_counter
          /\ [i \in DOMAIN tasks' |-> tasks'[i].key] = [i \in DOMAIN tasks |-> tasks[i].key]
          /\ \A i \in DOMAIN tasks :
                IF tasks[i].key = call'.task_id
                THEN \A f \in {"id", "title", "description", "priority", "created_at"} :
                        tasks'[i].val[f] = tasks[i].val[f]
                ELSE tasks'[i] = tasks[i]
    /\ (IsCall(call', "delete_task") /\ result'.success)
       => /\ task_counter' = task_counter
          /\ call'.task_id \in LiveIds
          /\ tasks' = SelectSeq(tasks, LAMBDA e : e.key # call'.task_id)
          /\ Len(tasks') = Len(tasks) - 1

C16_Frame == [][C16_FrameStep]_vars

C16_Witness ==
    /\ IsCall(call, "delete_task")
    /\ call.task_id = "task_1"
    /\ result.success
    /\ result.deleted_task.status = "completed"
    /\ LiveIds = {"task_2"}
    /\ task_counter = 2
\* The ids the store can hand out within the bounds.
ClaimIds == {IdOf(n) : n \in 1..(MaxCreates + 1)}

\* The summary of record t with the given text on its "Completed:" line.
SummaryText(t, completed) ==
    "Task Summary:\nTitle: " \o t.title \o "\nDescription: " \o t.description
    \o "\nPriority: " \o t.priority \o "\nStatus: " \o t.status
    \o "\nCreated: " \o t.created_at \o "\nCompleted: " \o completed
    \o "\n\nPlease analyze this task and provide recommendations for completion."

\* C17: "completed_at non-absent implies status = completed" is no invariant:
\* a successful update of a once completed task to pending or in_progress
\* leaves it with the new status and the old completed_at, and
\* task_summary_prompt then reports that timestamp, not "Not completed".
C17_ReopenStep ==
    \A id \in ClaimIds :
        (/\ IsCall(call', "update_task_status")
         /\ call'.task_id = id
         /\ call'.status \in {"pending", "in_progress"}
         /\ result'.success
         /\ \E t \in RecordsOf(id) : t.completed_at # None)
        => /\ \A t \in RecordsOf(id) : \A u \in RecordsIn(tasks', id) :
                 /\ u.status = call'.status
                 /\ u.completed_at = t.completed_at
                 /\ (task_summary_prompt(id))' = SummaryText(u, t.completed_at)
           /\ RecordsIn(tasks', id) # {}

C17_StaleCompletedAt == [][C17_ReopenStep]_vars

C17_Witness ==
    /\ IsCall(call, "task_summary_prompt")
    /\ \E t \in RecordsOf(call.task_id) :
          /\ t.status = "pending"
          /\ t.completed_at # None
          /\ result.text = SummaryText(t, t.completed_at)
          /\ result.text # SummaryText(t, "Not completed")
\* C18: update_task_status tests the id before the status: with an id not in
\* the store and a status outside the three it returns NotFound, and it
\* returns InvalidStatus only for an id that is in the store.
C18_UpdateStep ==
    IsCall(call', "update_task_status") =>
        /\ (call'.task_id \notin LiveIds /\ call'.status \notin StatusEnum)
           => result' = [success |-> FALSE,
                         error |-> "Task " \o call'.task_id \o " not found"]
        /\ (result' = [success |-> FALSE,
                       error |-> "Invalid status. Must be one of: pending, in_progress, completed"])
           => call'.task_id \in LiveIds

C18_ExistenceFirst == [][C18_UpdateStep]_vars

C18_Witness ==
    /\ IsCall(call, "update_task_status")
    /\ call.task_id = "task_99"
    /\ call.status = "done"
    /\ result = [success |-> FALSE, error |-> "Task task_99 not found"]
    /\ Len(tasks) = 1

\* C19: list_tasks, get_task_stats, the two resources and
\* task_summary_prompt leave the mapping, every record and the counter as
\* they were.
ReadOps == {"list_tasks", "get_task_stats", "resource", "task_summary_prompt"}

C19_ReadStep ==
    (call'.op \in ReadOps) => (tasks' = tasks /\ task_counter' = task_counter)

C19_ReadsChangeNothing == [][C19_ReadStep]_vars

C19_Witness ==
    /\ IsCall(call, "task_summary_prompt")
    /\ call.task_id \in LiveIds
    /\ result.text # "Task " \o call.task_id \o " not found"
    /\ Len(tasks) = 3

\* C20: every key of the mapping is the id of its value; the counter is the
\* number of create_task calls made so far and never decreases; every key is
\* task_n for some n from 1 to the counter, so the live tasks are at most as
\* many as the counter.
C20_WellFormed ==
    /\ \A i \in DOMAIN tasks : tasks[i].key = tasks[i].val.id
    /\ \A i, j \in DOMAIN tasks : tasks[i].key = tasks[j].key => i = j
    /\ task_counter = Len(created)
    /\ \A i \in DOMAIN tasks : \E n \in 1..task_counter : tasks[i].key = IdOf(n)
    /\ Len(tasks) <= task_counter

C20_CounterStep ==
    /\ task_counter' >= task_counter
    /\ IsCall(call', "create_task") => task_counter' = task_counter + 1
    /\ ~IsCall(call', "create_task") => task_counter' = task_counter

C20_StoreWellFormed == []C20_WellFormed /\ [][C20_CounterStep]_vars

C20_Witness ==
    /\ IsCall(call, "delete_task")
    /\ result.success
    /\ task_counter = 3
    /\ Len(created) = 3
    /\ LiveIds = {"task_2"}
====
